---- MODULE Spec2Model ----
(***************************************************************************)
(* The card-deck simulator server (src/server.js): one global gameState,  *)
(* a socket.io hub that dispatches inbound 'message' events to a switch   *)
(* over the action type, broadcasts the state after a mutation, keeps a   *)
(* clients map of last-activity timestamps and sweeps stale connections   *)
(* once a minute.  A card is modelled by its id.  One step of the model   *)
(* is one run-to-completion callback of the node event loop.  The second  *)
(* server file (src/unnamed/part_001) has the same switch, without the    *)
(* clients map and without try/catch: it is modelled by SpecPlain.        *)
(***************************************************************************)
EXTENDS Integers, Sequences, FiniteSets, TLC

\* ------------------------------------------------------------ bounds
MaxCards == 3          \* card ids are 1..MaxCards
MaxSockets == 2        \* socket ids are 1..MaxSockets
MaxSweeps == 2         \* the clock stops after this many sweep intervals
MaxPayload == 1        \* longest updatePeekedCards payload that is not a reordering
MaxTotal == 3          \* updatePeekedCards may not grow the piles beyond this

\* ------------------------------------------------- program constants
StaleMs == 60000       \* now - timestamp > 60000
SweepMs == 60000       \* setInterval(..., 60000)

Cards == 1..MaxCards
SocketIds == 1..MaxSockets

VARIABLES
    gameState,   \* {cards, drawnCards, discardPile, peekedCards, lastAction}
    sockets,     \* io.sockets.sockets: the namespace's sockets, insertion order
    closing,     \* sockets the server is closing whose 'disconnect' has not fired
    clients,     \* the clients Map: socket -> timestamp
    now,         \* Date.now()
    sweepDue,    \* the interval timer has expired and its callback is queued
    outbox,      \* what the last callback emitted, in order
    ev           \* the event the last callback handled

vars == <<gameState, sockets, closing, clients, now, sweepDue, outbox, ev>>

\* ------------------------------------------------------------ helpers
Range(s) == {s[i] : i \in DOMAIN s}

Min(a, b) == IF a < b THEN a ELSE b

Count(x, s) == Cardinality({i \in DOMAIN s : s[i] = x})

\* q holds the same elements as s with the same multiplicities
IsPermutation(q, s) ==
    /\ Len(q) = Len(s)
    /\ \A x \in Range(s) \cup Range(q) : Count(x, q) = Count(x, s)

NoDuplicates(q) == \A i, j \in DOMAIN q : q[i] = q[j] => i = j

\* the reorderings of s
PermutationsOf(s) == {[i \in DOMAIN s |-> s[p[i]]] : p \in Permutations(DOMAIN s)}

SeqsUpTo(S, n) == UNION {[1..k -> S] : k \in 0..n}

RemoveFrom(s, x) == SelectSeq(s, LAMBDA y : y # x)

EmptyMap == [x \in {} |-> 0]

MapDelete(f, k) == [x \in DOMAIN f \ {k} |-> f[x]]

MapSet(f, k, v) == [x \in DOMAIN f \cup {k} |-> IF x = k THEN v ELSE f[x]]

\* ---------------------------------------------------------- gameState
NoAction == [type |-> "null"]

EmptyState ==
    [cards |-> <<>>, drawnCards |-> <<>>, discardPile |-> <<>>,
     peekedCards |-> <<>>, lastAction |-> NoAction]

\* [...discardPile].sort(() => Math.random() - 0.5): some permutation
Shuffles(pile) == PermutationsOf(pile)

\* Each case of the switch yields the next gameState and whether
\* broadcastState() was called; the draw case, which may shuffle, yields the
\* set of its possible outcomes.
Result(gs, bc) == [gameState |-> gs, broadcast |-> bc]

\* CaseDraw drawing from the back of the pile
CaseDrawFromBack(gs) ==
    IF Len(gs.cards) > 0
    THEN LET card == gs.cards[Len(gs.cards)]
         IN  {Result([gs EXCEPT !.cards = SubSeq(gs.cards, 1, Len(gs.cards) - 1),
                               !.drawnCards = Append(gs.drawnCards, card),
                               !.lastAction = [type |-> "draw", card |-> card]],
                    TRUE)}
    ELSE IF Len(gs.discardPile) > 0
         THEN {Result([gs EXCEPT !.cards = shuffled,
                                !.discardPile = <<>>,
                                !.lastAction = [type |-> "reset"]],
                     TRUE) :
                  shuffled \in Shuffles(gs.discardPile)}
         ELSE {Result(gs, FALSE)}

\* CaseDraw recycling without emptying the discardPile
CaseDrawKeepsDiscardPile(gs) ==
    IF Len(gs.cards) > 0
    THEN {Result([gs EXCEPT !.cards = Tail(gs.cards),
                           !.drawnCards = Append(gs.drawnCards, Head(gs.cards)),
                           !.lastAction = [type |-> "draw", card |-> Head(gs.cards)]],
                TRUE)}
    ELSE IF Len(gs.discardPile) > 0
         THEN {Result([gs EXCEPT !.cards = shuffled,
                                !.lastAction = [type |-> "reset"]],
                     TRUE) :
                  shuffled \in Shuffles(gs.discardPile)}
         ELSE {Result(gs, FALSE)}

\* CaseDraw without the else branch that recycles the discardPile
CaseDrawNoRecycle(gs) ==
    IF Len(gs.cards) > 0
    THEN {Result([gs EXCEPT !.cards = Tail(gs.cards),
                            !.drawnCards = Append(gs.drawnCards, Head(gs.cards)),
                            !.lastAction = [type |-> "draw", card |-> Head(gs.cards)]],
                 TRUE)}
    ELSE {Result(gs, FALSE)}

CaseDraw(gs) ==
    IF Len(gs.cards) > 0
    THEN {Result([gs EXCEPT !.cards = Tail(gs.cards),
                           !.drawnCards = Append(gs.drawnCards, Head(gs.cards)),
                           !.lastAction = [type |-> "draw", card |-> Head(gs.cards)]],
                TRUE)}
    ELSE IF Len(gs.discardPile) > 0
         THEN {Result([gs EXCEPT !.cards = shuffled,
                                !.discardPile = <<>>,
                                !.lastAction = [type |-> "reset"]],
                     TRUE) :
                  shuffled \in Shuffles(gs.discardPile)}
         ELSE {Result(gs, FALSE)}

\* CaseDiscard without its broadcastState()
CaseDiscardSilent(gs) ==
    IF Len(gs.drawnCards) > 0
    THEN Result([gs EXCEPT !.discardPile = gs.drawnCards \o gs.discardPile,
                           !.drawnCards = <<>>,
                           !.lastAction = [type |-> "discard"]],
                FALSE)
    ELSE Result(gs, FALSE)

\* CaseDiscard putting the hand behind the discardPile
CaseDiscardAppends(gs) ==
    IF Len(gs.drawnCards) > 0
    THEN Result([gs EXCEPT !.discardPile = gs.discardPile \o gs.drawnCards,
                           !.drawnCards = <<>>,
                           !.lastAction = [type |-> "discard"]],
                TRUE)
    ELSE Result(gs, FALSE)

\* CaseDiscard throwing the hand away
CaseDiscardDropsHand(gs) ==
    IF Len(gs.drawnCards) > 0
    THEN Result([gs EXCEPT !.drawnCards = <<>>,
                           !.lastAction = [type |-> "discard"]],
                TRUE)
    ELSE Result(gs, FALSE)

CaseDiscard(gs) ==
    IF Len(gs.drawnCards) > 0
    THEN Result([gs EXCEPT !.discardPile = gs.drawnCards \o gs.discardPile,
                           !.drawnCards = <<>>,
                           !.lastAction = [type |-> "discard"]],
                TRUE)
    ELSE Result(gs, FALSE)

\* CountOrDefault ignoring the count sent
CountAlwaysOne(data) == 1

\* message.data?.count || 1: an absent count and a count of 0 both give 1
CountOrDefault(data) ==
    IF data.hasCount /\ data.count # 0 THEN data.count ELSE 1

CasePeek(gs, data) ==
    LET count == Min(CountOrDefault(data), Len(gs.cards))
    IN  IF count > 0
        THEN Result([gs EXCEPT !.peekedCards = SubSeq(gs.cards, 1, count),
                               !.cards = SubSeq(gs.cards, count + 1, Len(gs.cards)),
                               !.lastAction = [type |-> "peek"]],
                    TRUE)
        ELSE Result(gs, FALSE)

\* CaseReturnPeeked putting the revealed cards under the drawPile
CaseReturnPeekedToBottom(gs) ==
    IF Len(gs.peekedCards) > 0
    THEN Result([gs EXCEPT !.cards = gs.cards \o gs.peekedCards,
                           !.peekedCards = <<>>,
                           !.lastAction = [type |-> "returnPeeked"]],
                TRUE)
    ELSE Result(gs, FALSE)

CaseReturnPeeked(gs) ==
    IF Len(gs.peekedCards) > 0
    THEN Result([gs EXCEPT !.cards = gs.peekedCards \o gs.cards,
                           !.peekedCards = <<>>,
                           !.lastAction = [type |-> "returnPeeked"]],
                TRUE)
    ELSE Result(gs, FALSE)

\* CaseReset leaving the revealed cards in place
CaseResetKeepsPeeked(gs, data) ==
    IF data.isArray
    THEN Result([cards |-> data.cards, drawnCards |-> <<>>, discardPile |-> <<>>,
                 peekedCards |-> gs.peekedCards, lastAction |-> [type |-> "reset"]],
                TRUE)
    ELSE Result(gs, FALSE)

\* message.data?.cards && Array.isArray(message.data.cards)
CaseReset(gs, data) ==
    IF data.isArray
    THEN Result([cards |-> data.cards, drawnCards |-> <<>>, discardPile |-> <<>>,
                 peekedCards |-> <<>>, lastAction |-> [type |-> "reset"]],
                TRUE)
    ELSE Result(gs, FALSE)

\* no broadcastState() in this case
CaseUpdatePeekedCards(gs, data) ==
    IF data.isArray
    THEN Result([gs EXCEPT !.peekedCards = data.cards,
                           !.lastAction = [type |-> "updatePeekedCards"]],
                FALSE)
    ELSE Result(gs, FALSE)

\* switch (message.type): the possible outcomes
Switch(gs, message) ==
    CASE message.type = "draw" -> CaseDraw(gs)
      [] message.type = "discard" -> {CaseDiscard(gs)}
      [] message.type = "peek" -> {CasePeek(gs, message.data)}
      [] message.type = "returnPeeked" -> {CaseReturnPeeked(gs)}
      [] message.type = "reset" -> {CaseReset(gs, message.data)}
      [] message.type = "updatePeekedCards" -> {CaseUpdatePeekedCards(gs, message.data)}
      [] OTHER -> {Result(gs, FALSE)}

\* A message that is null, and an element of an array that is null
Null == [isNull |-> TRUE]

NullCard == 0

TypeOf(message) == IF message = Null THEN "null" ELSE message.type

\* The statements of the handler that throw a TypeError: message.type of a
\* null message, and card.id of a null element in the map() that comes before
\* the assignment to peekedCards
Throws(message) ==
    \/ message = Null
    \/ /\ message.type = "updatePeekedCards"
       /\ message.data.isArray
       /\ \E i \in DOMAIN message.data.cards : message.data.cards[i] = NullCard

\* ---------------------------------------------------------------- hub
\* Sockets that are connected: they can send and they receive what io.emit sends
Open == Range(sockets) \ closing

Receivers(socks, cl) == Range(socks) \ cl

\* io.engine.clientsCount: engine connections not yet closed
ClientsCount(socks) == Len(socks)

StateUpdate(to, gs) == [event |-> "stateUpdate", to |-> to, payload |-> gs]

ConnectionUpdate(to, n) ==
    [event |-> "connectionUpdate", to |-> to, payload |-> [connections |-> n]]

Pong(to) == [event |-> "pong", to |-> to, payload |-> [connections |-> 0]]

\* broadcastState() sending the state the callback started from
BroadcastStateBefore(gs) == StateUpdate(Open, gameState)

\* broadcastState() reaching only the socket that connected first
BroadcastStateToFirst(gs) == StateUpdate({Head(sockets)}, gs)

\* broadcastState(): io.emit('stateUpdate', gameState)
BroadcastState(gs) == StateUpdate(Open, gs)

\* broadcastConnectionCount() on a hub h = [sockets, closing, clients, outbox]
BroadcastConnectionCount(h) ==
    [h EXCEPT !.outbox = Append(h.outbox,
        ConnectionUpdate(Receivers(h.sockets, h.closing), ClientsCount(h.sockets)))]

Hub == [sockets |-> sockets, closing |-> closing, clients |-> clients, outbox |-> <<>>]

SetHub(h) ==
    /\ sockets' = h.sockets
    /\ closing' = h.closing
    /\ clients' = h.clients
    /\ outbox' = h.outbox

\* socket.on('disconnect'): runs once the connection of s is closed, when the
\* engine has dropped it from its count and the namespace from its sockets
OnDisconnect(h, s) ==
    BroadcastConnectionCount(
        [h EXCEPT !.sockets = RemoveFrom(h.sockets, s),
                  !.closing = h.closing \ {s},
                  !.clients = MapDelete(h.clients, s)])

\* The server closes the connection of s.  The transport closes at once (and
\* 'disconnect' fires inside the call) or later (its buffer drains first).
CloseConnection(h, s, atOnce) ==
    IF atOnce THEN OnDisconnect(h, s)
    ELSE [h EXCEPT !.closing = h.closing \cup {s}]

Init ==
    /\ gameState = EmptyState
    /\ sockets = <<>>
    /\ closing = {}
    /\ clients = EmptyMap
    /\ now = 0
    /\ sweepDue = FALSE
    /\ outbox = <<>>
    /\ ev = [type |-> "init"]

\* io.on('connection') with io.emit in place of socket.emit for the state
ConnectBroadcastsState(s) ==
    /\ s \notin Range(sockets)
    /\ LET h == [Hub EXCEPT !.sockets = Append(sockets, s),
                            !.clients = MapSet(clients, s, now),
                            !.outbox = <<StateUpdate(Open \cup {s}, gameState)>>]
       IN  SetHub(BroadcastConnectionCount(h))
    /\ ev' = [type |-> "connection", socket |-> s]
    /\ UNCHANGED <<gameState, now, sweepDue>>

\* io.on('connection')
Connect(s) ==
    /\ s \notin Range(sockets)
    /\ LET h == [Hub EXCEPT !.sockets = Append(sockets, s),
                            !.clients = MapSet(clients, s, now),
                            !.outbox = <<StateUpdate({s}, gameState)>>]
       IN  SetHub(BroadcastConnectionCount(h))
    /\ ev' = [type |-> "connection", socket |-> s]
    /\ UNCHANGED <<gameState, now, sweepDue>>

\* socket.on('ping') with io.emit in place of socket.emit
PingToAll(s) ==
    /\ s \in Open
    /\ outbox' = <<Pong(Open)>>
    /\ ev' = [type |-> "ping", socket |-> s]
    /\ UNCHANGED <<gameState, sockets, closing, clients, now, sweepDue>>

\* socket.on('ping')
Ping(s) ==
    /\ s \in Open
    /\ outbox' = <<Pong({s})>>
    /\ ev' = [type |-> "ping", socket |-> s]
    /\ UNCHANGED <<gameState, sockets, closing, clients, now, sweepDue>>

\* socket.on('getConnectionCount')
GetConnectionCount(s) ==
    /\ s \in Open
    /\ outbox' = <<ConnectionUpdate({s}, ClientsCount(sockets))>>
    /\ ev' = [type |-> "getConnectionCount", socket |-> s]
    /\ UNCHANGED <<gameState, sockets, closing, clients, now, sweepDue>>

\* socket.on('message'): the timestamp is refreshed before the switch, and
\* catch (error) only logs what the switch threw
OnMessage(s, message) ==
    /\ s \in Open
    /\ ev' = [type |-> "message", socket |-> s, message |-> TypeOf(message)]
    /\ clients' = IF s \in DOMAIN clients THEN MapSet(clients, s, now) ELSE clients
    /\ IF Throws(message)
       THEN gameState' = gameState /\ outbox' = <<>>
       ELSE \E r \in Switch(gameState, message) :
               /\ gameState' = r.gameState
               /\ outbox' = IF r.broadcast THEN <<BroadcastState(r.gameState)>> ELSE <<>>
    /\ UNCHANGED <<sockets, closing, now, sweepDue>>

\* socket.on('disconnect') after the client left or the transport dropped
Disconnect(s) ==
    /\ s \in Open
    /\ SetHub(OnDisconnect(Hub, s))
    /\ ev' = [type |-> "disconnect", socket |-> s]
    /\ UNCHANGED <<gameState, now, sweepDue>>

\* socket.on('disconnect') once a connection the server was closing is closed
CloseComplete(s) ==
    /\ s \in closing
    /\ SetHub(OnDisconnect(Hub, s))
    /\ ev' = [type |-> "closed", socket |-> s]
    /\ UNCHANGED <<gameState, now, sweepDue>>

\* socket.on('error'); socket.io then closes the connection the error came from
Error(s, atOnce) ==
    /\ s \in Open
    /\ LET h == BroadcastConnectionCount([Hub EXCEPT !.clients = MapDelete(clients, s)])
       IN  SetHub(CloseConnection(h, s, atOnce))
    /\ ev' = [type |-> "error", socket |-> s]
    /\ UNCHANGED <<gameState, now, sweepDue>>

\* now - clientData.timestamp > 60000
IsStale(t, timestamp) == t - timestamp > StaleMs

\* io.sockets.sockets.forEach(...) over the sockets left to visit
RECURSIVE SweepLoop(_, _, _, _)
SweepLoop(h, order, cleanedCount, atOnce) ==
    IF order = <<>> THEN [hub |-> h, cleanedCount |-> cleanedCount]
    ELSE LET s == Head(order)
         IN  IF s \in DOMAIN h.clients /\ IsStale(now, h.clients[s])
             THEN LET closed == CloseConnection(h, s, atOnce)
                  IN  SweepLoop([closed EXCEPT !.clients = MapDelete(closed.clients, s)],
                                Tail(order), cleanedCount + 1, atOnce)
             ELSE SweepLoop(h, Tail(order), cleanedCount, atOnce)

\* the setInterval callback
SweepResult(atOnce) ==
    LET r == SweepLoop(Hub, sockets, 0, atOnce)
    IN  IF r.cleanedCount > 0 THEN BroadcastConnectionCount(r.hub) ELSE r.hub

Sweep(atOnce) ==
    /\ sweepDue
    /\ SetHub(SweepResult(atOnce))
    /\ sweepDue' = FALSE
    /\ ev' = [type |-> "sweep"]
    /\ UNCHANGED <<gameState, now>>

\* SweepMs of wall-clock time pass and the interval timer expires
Advance ==
    /\ ~sweepDue
    /\ now < MaxSweeps * SweepMs
    /\ now' = now + SweepMs
    /\ sweepDue' = TRUE
    /\ outbox' = <<>>
    /\ ev' = [type |-> "tick"]
    /\ UNCHANGED <<gameState, sockets, closing, clients>>

\* ------------------------------------------------------ inbound messages
PeekData ==
    {[hasCount |-> FALSE, count |-> 0]}
        \cup {[hasCount |-> TRUE, count |-> c] : c \in (0 - 1)..(MaxCards + 1)}

NotAnArray == [isArray |-> FALSE, cards |-> <<>>]

ArrayOf(q) == [isArray |-> TRUE, cards |-> q]

\* the decks of distinct cards 1..k, in ascending and in descending order
Decks ==
    {[i \in 1..k |-> i] : k \in 0..MaxCards}
        \cup {[i \in 1..k |-> k + 1 - i] : k \in 0..MaxCards}

ResetData == {NotAnArray} \cup {ArrayOf(q) : q \in Decks}

\* reorderings of the revealed cards, short arrays of the first card, and an
\* array of one null
UpdateData ==
    {NotAnArray}
        \cup {ArrayOf(q) : q \in PermutationsOf(gameState.peekedCards)}
        \cup {ArrayOf(q) : q \in SeqsUpTo({1}, MaxPayload)}
        \cup {ArrayOf(<<NullCard>>)}

Fits(data) ==
    Len(gameState.cards) + Len(gameState.drawnCards) + Len(gameState.discardPile)
        + Len(data.cards) <= MaxTotal

MsgDraw(s) == OnMessage(s, [type |-> "draw"])

MsgDiscard(s) == OnMessage(s, [type |-> "discard"])

MsgPeek(s, data) == OnMessage(s, [type |-> "peek", data |-> data])

MsgReturnPeeked(s) == OnMessage(s, [type |-> "returnPeeked"])

MsgReset(s, data) == OnMessage(s, [type |-> "reset", data |-> data])

MsgUpdatePeekedCards(s, data) ==
    /\ Fits(data)
    /\ OnMessage(s, [type |-> "updatePeekedCards", data |-> data])

\* a type the switch has no case for
MsgOther(s) == OnMessage(s, [type |-> "resetDeck"])

\* socket.emit('message', null)
MsgNull(s) == OnMessage(s, Null)

\* ---------------------------------------------------------- the hub
\* Every callback of the server.  A reset installs the one-card deck here, a
\* peek carries no count, 0 or a negative count, and updatePeekedCards carries
\* a reordering of the revealed cards or no array.
HubResetData == {NotAnArray, ArrayOf(<<1>>)}

\* no count, a count of 0 and a negative count
HubPeekData ==
    {[hasCount |-> FALSE, count |-> 0]}
        \cup {[hasCount |-> TRUE, count |-> c] : c \in {0 - 1, 0}}

HubUpdateData ==
    {NotAnArray} \cup {ArrayOf(q) : q \in PermutationsOf(gameState.peekedCards)}

Next ==
    \/ \E s \in SocketIds : Connect(s)
    \/ \E s \in SocketIds : Ping(s)
    \/ \E s \in SocketIds : GetConnectionCount(s)
    \/ \E s \in SocketIds : MsgDraw(s)
    \/ \E s \in SocketIds : MsgDiscard(s)
    \/ \E s \in SocketIds, data \in HubPeekData : MsgPeek(s, data)
    \/ \E s \in SocketIds : MsgReturnPeeked(s)
    \/ \E s \in SocketIds, data \in HubResetData : MsgReset(s, data)
    \/ \E s \in SocketIds, data \in HubUpdateData : MsgUpdatePeekedCards(s, data)
    \/ \E s \in SocketIds : MsgOther(s)
    \/ \E s \in SocketIds : MsgNull(s)
    \/ \E s \in SocketIds : Disconnect(s)
    \/ \E s \in SocketIds : CloseComplete(s)
    \/ \E s \in SocketIds, atOnce \in BOOLEAN : Error(s, atOnce)
    \/ \E atOnce \in BOOLEAN : Sweep(atOnce)
    \/ Advance

Spec == Init /\ [][Next]_vars

\* --------------------------------------------------------- the deck
\* The switch alone, with every payload, under a hub that stays as it is
\* after the first socket has connected at time 0.
InitDeck ==
    /\ gameState = EmptyState
    /\ sockets = <<1>>
    /\ closing = {}
    /\ clients = MapSet(EmptyMap, 1, 0)
    /\ now = 0
    /\ sweepDue = FALSE
    /\ outbox = <<StateUpdate({1}, EmptyState), ConnectionUpdate({1}, 1)>>
    /\ ev = [type |-> "connection", socket |-> 1]

NextDeck ==
    \/ \E s \in SocketIds : MsgDraw(s)
    \/ \E s \in SocketIds : MsgDiscard(s)
    \/ \E s \in SocketIds, data \in PeekData : MsgPeek(s, data)
    \/ \E s \in SocketIds : MsgReturnPeeked(s)
    \/ \E s \in SocketIds, data \in ResetData : MsgReset(s, data)
    \/ \E s \in SocketIds, data \in UpdateData : MsgUpdatePeekedCards(s, data)
    \/ \E s \in SocketIds : MsgOther(s)
    \/ \E s \in SocketIds : MsgNull(s)

SpecDeck == InitDeck /\ [][NextDeck]_vars

\* ---------------------------------------------------- valid actions only
\* The deck under the actions a well-behaved client sends: a reset with a deck
\* of distinct cards, draw, discard, peek, returnPeeked, and updatePeekedCards
\* with a reordering of the revealed cards.
ValidReset == \E s \in SocketIds, q \in Decks : MsgReset(s, ArrayOf(q))

ValidReorder ==
    \E s \in SocketIds, q \in PermutationsOf(gameState.peekedCards) :
        MsgUpdatePeekedCards(s, ArrayOf(q))

ValidAction ==
    \/ \E s \in SocketIds : MsgDraw(s)
    \/ \E s \in SocketIds : MsgDiscard(s)
    \/ \E s \in SocketIds, data \in PeekData : MsgPeek(s, data)
    \/ \E s \in SocketIds : MsgReturnPeeked(s)
    \/ ValidReorder

NextValid == ValidReset \/ ValidAction

SpecValid == InitDeck /\ [][NextValid]_vars

\* ------------------------------------------------------- draws only
\* Clients that send nothing but draw, starting from any table the server can
\* hold with no card revealed: distinct cards dealt over drawPile, hand and
\* discardPile (reset to a deck, then draw and discard), left there by an
\* updatePeekedCards with an empty array.  A draw that has an effect is
\* eventually sent and handled.
Arrangements ==
    UNION {{[cards |-> SubSeq(q, 1, ij[1]),
             drawnCards |-> SubSeq(q, ij[1] + 1, ij[2]),
             discardPile |-> SubSeq(q, ij[2] + 1, Len(q)),
             peekedCards |-> <<>>,
             lastAction |-> [type |-> "updatePeekedCards"]] :
               ij \in {x \in (0..Len(q)) \X (0..Len(q)) : x[1] <= x[2]}} :
           q \in {x \in SeqsUpTo(Cards, MaxCards) : NoDuplicates(x)}}

InitDraws ==
    /\ gameState \in Arrangements
    /\ sockets = <<1>>
    /\ closing = {}
    /\ clients = MapSet(EmptyMap, 1, 0)
    /\ now = 0
    /\ sweepDue = FALSE
    /\ outbox = <<>>
    /\ ev = [type |-> "message", socket |-> 1, message |-> "updatePeekedCards"]

NextDraws == \E s \in SocketIds : MsgDraw(s)

SpecDraws == InitDraws /\ [][NextDraws]_vars /\ WF_vars(NextDraws)

\* ------------------------------------------------- the second server file
\* The server of the repository's second source file: the same switch, over
\* const { type, ...payload } = data, with event 'state', no clients map, no
\* handler but 'message' and no try around the switch.  An exception thrown in
\* the handler is an uncaught exception: node prints it and the process exits.
Exited == ev.type = "uncaughtException"

StateEvent(to, gs) == [event |-> "state", to |-> to, payload |-> gs]

\* io.on('connection'): socket.emit('state', gameState)
PlainConnect(s) ==
    /\ ~Exited
    /\ s \notin Range(sockets)
    /\ sockets' = Append(sockets, s)
    /\ outbox' = <<StateEvent({s}, gameState)>>
    /\ ev' = [type |-> "connection", socket |-> s]
    /\ UNCHANGED <<gameState, closing, clients, now, sweepDue>>

\* a client leaves: no handler is registered for it
PlainDisconnect(s) ==
    /\ ~Exited
    /\ s \in Open
    /\ sockets' = RemoveFrom(sockets, s)
    /\ outbox' = <<>>
    /\ ev' = [type |-> "disconnect", socket |-> s]
    /\ UNCHANGED <<gameState, closing, clients, now, sweepDue>>

\* socket.on('message', (data) => { const { type, ...payload } = data; switch ... })
PlainOnMessage(s, data) ==
    /\ ~Exited
    /\ s \in Open
    /\ IF Throws(data)
       THEN /\ ev' = [type |-> "uncaughtException", socket |-> s]
            /\ sockets' = <<>>
            /\ outbox' = <<>>
            /\ gameState' = gameState
       ELSE /\ ev' = [type |-> "message", socket |-> s, message |-> data.type]
            /\ sockets' = sockets
            /\ \E r \in Switch(gameState, data) :
                  /\ gameState' = r.gameState
                  /\ outbox' = IF r.broadcast THEN <<StateEvent(Open, r.gameState)>>
                                ELSE <<>>
    /\ UNCHANGED <<closing, clients, now, sweepDue>>

PlainUpdateData == HubUpdateData \cup {ArrayOf(<<NullCard>>)}

PlainResetData == {NotAnArray, ArrayOf(<<1, 2>>)}

NextPlain ==
    \/ \E s \in SocketIds : PlainConnect(s)
    \/ \E s \in SocketIds : PlainDisconnect(s)
    \/ \E s \in SocketIds : PlainOnMessage(s, [type |-> "draw"])
    \/ \E s \in SocketIds : PlainOnMessage(s, [type |-> "discard"])
    \/ \E s \in SocketIds, data \in HubPeekData :
          PlainOnMessage(s, [type |-> "peek", data |-> data])
    \/ \E s \in SocketIds : PlainOnMessage(s, [type |-> "returnPeeked"])
    \/ \E s \in SocketIds, data \in PlainResetData :
          PlainOnMessage(s, [type |-> "reset", data |-> data])
    \/ \E s \in SocketIds, data \in PlainUpdateData :
          PlainOnMessage(s, [type |-> "updatePeekedCards", data |-> data])
    \/ \E s \in SocketIds : PlainOnMessage(s, [type |-> "resetDeck"])
    \/ \E s \in SocketIds : PlainOnMessage(s, Null)

SpecPlain == Init /\ [][NextPlain]_vars

\* ------------------------------------------------------------- claims
AllCards(gs) == gs.cards \o gs.drawnCards \o gs.discardPile \o gs.peekedCards

IsMessage(type) == ev.type = "message" /\ ev.message = type

\* the step handles a message of this type
Handles(type) == ev'.type = "message" /\ ev'.message = type

\* C1: from a deck of distinct cards, every valid action (draw, discard, peek,
\* returnPeeked, updatePeekedCards with a reordering) keeps every card in
\* exactly one of the four piles: none is duplicated, none is lost, and the
\* four lengths keep adding up to the size of the deck.
C1_CardConservation ==
    [][ValidAction =>
          /\ IsPermutation(AllCards(gameState'), AllCards(gameState))
          /\ NoDuplicates(AllCards(gameState'))]_vars

\* C4: a draw from a non-empty drawPile moves its front card to the back of the
\* hand, leaves discardPile and peekedCards alone and sets lastAction to draw
\* with that card.
C4_DrawMovesFrontCard ==
    [][\A s \in SocketIds :
          MsgDraw(s) /\ Len(gameState.cards) > 0 =>
              /\ gameState'.cards = Tail(gameState.cards)
              /\ gameState'.drawnCards =
                     Append(gameState.drawnCards, Head(gameState.cards))
              /\ gameState'.discardPile = gameState.discardPile
              /\ gameState'.peekedCards = gameState.peekedCards
              /\ gameState'.lastAction =
                     [type |-> "draw", card |-> Head(gameState.cards)]]_vars

\* the end of draw, discard, draw on the deck <<1, 2, 3>>
C4_Witness ==
    /\ IsMessage("draw")
    /\ gameState = [cards |-> <<3>>, drawnCards |-> <<2>>, discardPile |-> <<1>>,
                    peekedCards |-> <<>>,
                    lastAction |-> [type |-> "draw", card |-> 2]]

\* C5: a draw with an empty drawPile and a non-empty discardPile makes drawPile
\* a permutation of the discardPile and empties the discardPile, sets
\* lastAction to reset, leaves hand and peekedCards alone: no card is drawn.
C5_DrawRecyclesDiscardPile ==
    [][\A s \in SocketIds :
          MsgDraw(s) /\ Len(gameState.cards) = 0 /\ Len(gameState.discardPile) > 0 =>
              /\ IsPermutation(gameState'.cards, gameState.discardPile)
              /\ gameState'.discardPile = <<>>
              /\ gameState'.lastAction = [type |-> "reset"]
              /\ gameState'.drawnCards = gameState.drawnCards
              /\ gameState'.peekedCards = gameState.peekedCards]_vars

\* a recycled drawPile of two cards in descending order, one card revealed
C5_Witness ==
    /\ IsMessage("draw")
    /\ gameState.lastAction = [type |-> "reset"]
    /\ gameState.discardPile = <<>>
    /\ Len(gameState.cards) = 2
    /\ gameState.cards[1] > gameState.cards[2]
    /\ Len(gameState.peekedCards) = 1

\* C6: a discard with a non-empty hand puts the hand, in its order, in front of
\* the discardPile, empties the hand, sets lastAction to discard and leaves
\* drawPile and peekedCards alone.
C6_DiscardPrependsHand ==
    [][\A s \in SocketIds :
          MsgDiscard(s) /\ Len(gameState.drawnCards) > 0 =>
              /\ gameState'.discardPile = gameState.drawnCards \o gameState.discardPile
              /\ gameState'.drawnCards = <<>>
              /\ gameState'.lastAction = [type |-> "discard"]
              /\ gameState'.cards = gameState.cards
              /\ gameState'.peekedCards = gameState.peekedCards]_vars

\* a second discard: the discardPile holds two cards and the hand is empty
C6_Witness ==
    /\ IsMessage("discard")
    /\ gameState.lastAction = [type |-> "discard"]
    /\ gameState.drawnCards = <<>>
    /\ gameState.discardPile = <<2, 1>>
    /\ gameState.cards = <<3>>

\* C7: peek with a count of at least 1 (1 when absent) on a non-empty drawPile
\* replaces peekedCards by the front n = min(count, length) cards of drawPile,
\* in order, takes them off drawPile and sets lastAction to peek.
C7_PeekTakesFrontCards ==
    [][Handles("peek") => \A s \in SocketIds, data \in PeekData :
          /\ MsgPeek(s, data)
          /\ Len(gameState.cards) > 0
          /\ (data.hasCount => data.count >= 1)
          =>
          LET n == Min(IF data.hasCount THEN data.count ELSE 1, Len(gameState.cards))
          IN  /\ gameState'.peekedCards = SubSeq(gameState.cards, 1, n)
              /\ gameState'.cards = SubSeq(gameState.cards, n + 1, Len(gameState.cards))
              /\ gameState'.lastAction = [type |-> "peek"]]_vars

\* two cards revealed, the drawPile empty and a third card in the hand
C7_Witness ==
    /\ IsMessage("peek")
    /\ gameState.lastAction = [type |-> "peek"]
    /\ Len(gameState.peekedCards) = 2
    /\ gameState.cards = <<>>
    /\ Len(gameState.drawnCards) = 1

\* what returnPeeked would make of the state gs
Returned(gs) == CaseReturnPeeked(gs).gameState

\* C8 as stated: for any drawPile and any count of at least 1, a peek followed
\* at once by returnPeeked gives back the drawPile as it was and leaves
\* peekedCards empty.
C8_RoundTripAnyPile ==
    [][Handles("peek") => \A s \in SocketIds, data \in PeekData :
          MsgPeek(s, data) /\ data.hasCount /\ data.count >= 1 =>
              /\ Returned(gameState').cards = gameState.cards
              /\ Returned(gameState').peekedCards = <<>>]_vars

\* C8 as amended: the same, for a drawPile that is not empty or when no card
\* is revealed before the peek.
C8_RoundTrip ==
    [][Handles("peek") => \A s \in SocketIds, data \in PeekData :
          /\ MsgPeek(s, data) /\ data.hasCount /\ data.count >= 1
          /\ (Len(gameState.cards) > 0 \/ Len(gameState.peekedCards) = 0)
          =>
          /\ Returned(gameState').cards = gameState.cards
          /\ Returned(gameState').peekedCards = <<>>]_vars

\* cards revealed by a peek went back on a drawPile that still held a card
C8_Witness ==
    /\ IsMessage("returnPeeked")
    /\ gameState.lastAction = [type |-> "returnPeeked"]
    /\ gameState.peekedCards = <<>>
    /\ gameState.cards = <<1, 2, 3>>
    /\ outbox = <<BroadcastState(gameState)>>

\* C9: a reset with an array of cards makes drawPile that array, empties hand,
\* discardPile and peekedCards, sets lastAction to reset, whatever the state
\* before, and broadcasts the state.
C9_ResetInstallsDeck ==
    [][Handles("reset") => \A s \in SocketIds, data \in ResetData :
          MsgReset(s, data) /\ data.isArray =>
              /\ gameState' = [cards |-> data.cards, drawnCards |-> <<>>,
                               discardPile |-> <<>>, peekedCards |-> <<>>,
                               lastAction |-> [type |-> "reset"]]
              /\ outbox' = <<StateUpdate(Open', gameState')>>]_vars

\* a reset to the deck <<2, 1>>
C9_Witness ==
    /\ IsMessage("reset")
    /\ gameState = [cards |-> <<2, 1>>, drawnCards |-> <<>>, discardPile |-> <<>>,
                    peekedCards |-> <<>>, lastAction |-> [type |-> "reset"]]
    /\ outbox = <<BroadcastState(gameState)>>

\* C2 as stated: every message that changes gameState, updatePeekedCards
\* included, makes exactly one stateUpdate broadcast, of the state it left,
\* to every connected socket.
C2_EveryMutationBroadcasts ==
    [][ev'.type = "message" /\ gameState' # gameState =>
          outbox' = <<StateUpdate(Open, gameState')>>]_vars

\* C2 as amended: every message but updatePeekedCards that changes gameState
\* makes exactly one stateUpdate broadcast, of the state it left, to every
\* connected socket; updatePeekedCards changes gameState and emits nothing.
C2_MutationBroadcasts ==
    [][ev'.type = "message" /\ gameState' # gameState =>
          IF ev'.message = "updatePeekedCards"
          THEN outbox' = <<>>
          ELSE outbox' = <<StateUpdate(Open, gameState')>>]_vars

\* a discard broadcast to two connected sockets
C2_Witness ==
    /\ IsMessage("discard")
    /\ gameState.lastAction = [type |-> "discard"]
    /\ Open = {1, 2}
    /\ outbox = <<StateUpdate({1, 2}, gameState)>>

\* the n of a peek as the specification gives it: min(count, length), with
\* count 1 if absent
ClampedN(gs, data) == Min(IF data.hasCount THEN data.count ELSE 1, Len(gs.cards))

\* C3: an action whose precondition fails, or that is malformed, changes no
\* field of gameState and emits nothing: draw with drawPile and discardPile
\* empty, discard with an empty hand, peek with a clamped n of 0 or less,
\* returnPeeked with no revealed cards, reset and updatePeekedCards without an
\* array.
C3_SilentNoOp ==
    [][\A s \in SocketIds :
          \/ /\ MsgDraw(s)
             /\ Len(gameState.cards) = 0 /\ Len(gameState.discardPile) = 0
          \/ MsgDiscard(s) /\ Len(gameState.drawnCards) = 0
          \/ \E data \in PeekData : MsgPeek(s, data) /\ ClampedN(gameState, data) <= 0
          \/ MsgReturnPeeked(s) /\ Len(gameState.peekedCards) = 0
          \/ MsgReset(s, NotAnArray)
          \/ MsgUpdatePeekedCards(s, NotAnArray)
          =>
          gameState' = gameState /\ outbox' = <<>>]_vars

ConnectionUpdates(box) ==
    Cardinality({i \in DOMAIN box : box[i].event = "connectionUpdate"})

\* C10: a sweep closes every connection whose timestamp is 60 seconds old or
\* older and removes its record, and emits exactly one connectionUpdate when
\* it evicted a connection and none when it evicted nothing.
C10_StaleEviction ==
    [][\A atOnce \in BOOLEAN :
          Sweep(atOnce) =>
              LET stale == {s \in DOMAIN clients : now - clients[s] >= StaleMs}
              IN  /\ \A s \in stale : s \notin Open' /\ s \notin DOMAIN clients'
                  /\ ConnectionUpdates(outbox') = IF stale = {} THEN 0 ELSE 1]_vars

\* the messages that make a statement of the handler throw
ThrowingMessages ==
    {Null, [type |-> "updatePeekedCards", data |-> ArrayOf(<<NullCard>>)]}

\* C11: an exception raised while a message is processed (a null message, an
\* updatePeekedCards array with a null element) is caught: the server keeps
\* running, the sender stays connected and keeps its record, and gameState is
\* left as it was.
C11_ExceptionsAreCaught ==
    [][\A s \in SocketIds, message \in ThrowingMessages :
          OnMessage(s, message) \/ PlainOnMessage(s, message) =>
              /\ ~Exited'
              /\ s \in Open'
              /\ (s \in DOMAIN clients => s \in DOMAIN clients')
              /\ gameState' = gameState]_vars

\* C12: two sockets that are connected before and after a callback get the
\* same stateUpdate snapshots from it, so that they receive the same sequence
\* in the same order while both are connected, and every snapshot is the
\* gameState the callback left.
C12_SameSnapshotSequence ==
    [][\A i \in DOMAIN outbox' :
          outbox'[i].event = "stateUpdate" =>
              /\ outbox'[i].payload = gameState'
              /\ \A a, b \in Open \cap Open' :
                    a \in outbox'[i].to <=> b \in outbox'[i].to]_vars

\* a draw sent by the second socket and broadcast to both
C12_Witness ==
    /\ IsMessage("draw")
    /\ ev.socket = 2
    /\ gameState.drawnCards = <<1>>
    /\ Open = {1, 2}
    /\ outbox = <<StateUpdate({1, 2}, gameState)>>

\* C13: a connection registers a record for the new socket with the current
\* time, sends gameState to the new socket only and then a connectionUpdate,
\* carrying the connection count that includes the new socket, to every
\* connected socket, the new one included.
C13_ConnectBootstraps ==
    [][\A s \in SocketIds :
          Connect(s) =>
              /\ s \in DOMAIN clients' /\ clients'[s] = now
              /\ \A o \in DOMAIN clients : o \in DOMAIN clients' /\ clients'[o] = clients[o]
              /\ outbox' = <<[event |-> "stateUpdate", to |-> {s}, payload |-> gameState],
                             [event |-> "connectionUpdate", to |-> Open \cup {s},
                              payload |-> [connections |-> Len(sockets) + 1]]>>
              /\ gameState' = gameState]_vars

\* the second socket connects, one sweep period after the start, to a deck
\* that holds a card
C13_Witness ==
    /\ ev = [type |-> "connection", socket |-> 2]
    /\ now = SweepMs
    /\ clients[2] = now
    /\ gameState.cards = <<1>>
    /\ outbox = <<StateUpdate({2}, gameState), ConnectionUpdate({1, 2}, 2)>>

\* the callback handles something the socket s sent
Inbound(s) ==
    /\ ev'.type \in {"ping", "getConnectionCount", "message"}
    /\ ev'.socket = s

\* C14: every inbound event of a socket (ping, getConnectionCount, message)
\* sets the timestamp of its record to the current time, and a sweep that
\* comes right after an inbound event of a socket does not evict that socket.
C14_ActivityKeepsAlive ==
    [][/\ \A s \in SocketIds :
             Inbound(s) /\ s \in DOMAIN clients => clients'[s] = now
       /\ \A atOnce \in BOOLEAN :
             /\ Sweep(atOnce)
             /\ ev.type \in {"ping", "getConnectionCount", "message"}
             /\ ev.socket \in DOMAIN clients
             =>
             ev.socket \in Open' /\ ev.socket \in DOMAIN clients']_vars

StateUpdates(box) == {i \in DOMAIN box : box[i].event = "stateUpdate"}

\* C15: connection, disconnect, error, ping, getConnectionCount and the sweep
\* leave gameState as it is and emit no stateUpdate, but for the one a
\* connection sends to the new socket alone; a ping emits a pong to its sender
\* and nothing else, getConnectionCount a connectionUpdate to its sender and
\* nothing else.
C15_OnlyMessagesTouchState ==
    [][ev'.type \in {"connection", "disconnect", "closed", "error", "ping",
                     "getConnectionCount", "sweep"} =>
          /\ gameState' = gameState
          /\ IF ev'.type = "connection"
             THEN \A i \in StateUpdates(outbox') : i = 1 /\ outbox'[i].to = {ev'.socket}
             ELSE StateUpdates(outbox') = {}
          /\ ev'.type = "ping" =>
                /\ Len(outbox') = 1
                /\ outbox'[1].event = "pong" /\ outbox'[1].to = {ev'.socket}
          /\ ev'.type = "getConnectionCount" =>
                /\ Len(outbox') = 1
                /\ outbox'[1].event = "connectionUpdate"
                /\ outbox'[1].to = {ev'.socket}]_vars

\* the second of two sockets pings while a card is in the hand
C15_Witness ==
    /\ ev = [type |-> "ping", socket |-> 2]
    /\ Open = {1, 2}
    /\ gameState.drawnCards = <<1>>
    /\ outbox = <<Pong({2})>>

\* C16: updatePeekedCards emits no snapshot, so the snapshot the clients hold
\* can differ from gameState after it; right after a stateUpdate broadcast the
\* snapshot every connected socket received last is that broadcast, and it
\* equals gameState.
C16_ViewsConverge ==
    /\ IsMessage("updatePeekedCards") => StateUpdates(outbox) = {}
    /\ ev.type # "connection" =>
          \A i \in StateUpdates(outbox) :
              /\ \A c \in Open : c \in outbox[i].to
              /\ outbox[i].payload = gameState

\* the revealed card went back on the drawPile and both sockets were told
C16_Witness ==
    /\ IsMessage("returnPeeked")
    /\ gameState.lastAction = [type |-> "returnPeeked"]
    /\ gameState.cards = <<1>>
    /\ Open = {1, 2}
    /\ outbox = <<StateUpdate({1, 2}, gameState)>>

\* C17: a draw, a discard, a returnPeeked, and a peek sent while no card is
\* revealed, each keep the multiset of the cards in the four piles; of these
\* four only a peek sent while cards are revealed can lose cards.
C17_RestrictedConservation ==
    [][\A s \in SocketIds :
          \/ MsgDraw(s)
          \/ MsgDiscard(s)
          \/ MsgReturnPeeked(s)
          \/ \E data \in PeekData : MsgPeek(s, data) /\ gameState.peekedCards = <<>>
          =>
          IsPermutation(AllCards(gameState'), AllCards(gameState))]_vars

\* reset to <<1, 2, 3>>, draw, peek: one card in each of three piles
C17_Witness ==
    /\ IsMessage("peek")
    /\ gameState = [cards |-> <<3>>, drawnCards |-> <<1>>, discardPile |-> <<>>,
                    peekedCards |-> <<2>>, lastAction |-> [type |-> "peek"]]

OtherPiles(gs) == Range(gs.cards) \cup Range(gs.drawnCards) \cup Range(gs.discardPile)

Available(gs) == Len(gs.cards) + Len(gs.discardPile) > 0

\* the callback just handled was a draw that put a card in the hand
CardDrawn == IsMessage("draw") /\ gameState.lastAction.type = "draw"

\* C19: with the drawPile empty and the discardPile not, a draw recycles the
\* discardPile and leaves the hand alone, and the draw after it puts the front
\* card of the recycled drawPile in the hand; with both empty a draw changes
\* nothing; and while a card is in the drawPile or the discardPile, clients
\* that only draw eventually get a card in the hand.
C19_Playability ==
    /\ [][\A s \in SocketIds :
             MsgDraw(s) =>
                 /\ gameState.cards = <<>> /\ gameState.discardPile # <<>> =>
                       /\ IsPermutation(gameState'.cards, gameState.discardPile)
                       /\ gameState'.drawnCards = gameState.drawnCards
                       /\ \A r \in CaseDraw(gameState') :
                             r.gameState.drawnCards =
                                 Append(gameState.drawnCards, Head(gameState'.cards))
                 /\ gameState.cards = <<>> /\ gameState.discardPile = <<>> =>
                       gameState' = gameState /\ outbox' = <<>>]_vars
    /\ Available(gameState) ~> CardDrawn

\* the second card of a recycled discardPile is still on the drawPile, the
\* first went to the hand
C19_Witness ==
    /\ CardDrawn
    /\ gameState = [cards |-> <<1>>, drawnCards |-> <<3, 2>>, discardPile |-> <<>>,
                    peekedCards |-> <<>>,
                    lastAction |-> [type |-> "draw", card |-> 2]]

\* the count carried by the last connectionUpdate of the box, or none
LastCount(box) ==
    LET updates == {i \in DOMAIN box : box[i].event = "connectionUpdate"}
    IN  IF updates = {} THEN {}
        ELSE {box[CHOOSE i \in updates : \A j \in updates : j <= i].payload.connections}

\* C20: after every callback the sockets with a record are the connected
\* sockets; the connectionUpdate a callback sends last carries the number of
\* records it leaves; and the connectionUpdate the error handler sends
\* carries the number of records left once the record of its socket is
\* deleted.
C20_ConnectionBookkeeping ==
    [][/\ DOMAIN clients' = Open'
       /\ \A n \in LastCount(outbox') : n = Cardinality(DOMAIN clients')
       /\ \A s \in SocketIds, atOnce \in BOOLEAN :
             Error(s, atOnce) =>
                 outbox'[1].payload.connections = Cardinality(DOMAIN clients \ {s})]_vars
====
